---- MODULE Spec2Model ----
(***************************************************************************)
(* State-machine model of the PDF chatbot: the document registry kept in   *)
(* data/config.json (utils.py), the files under data/pdfs and              *)
(* data/vectorstores, and the chat session of pages/user.py; and the       *)
(* single-file application app.py, which keeps no registry and works on    *)
(* the directories pdf_files and vectorstores.                             *)
(*                                                                         *)
(* Files are read and written whole: one open/read or open/write of a file *)
(* is one step.  External services (PDF parsing, the embedding service,    *)
(* pickling, the language model) are inputs of the action that calls them. *)
(***************************************************************************)
EXTENDS Integers, Sequences, FiniteSets, TLC

\* ------------------------------------------------------------------ bounds
\* Document names are 1..NumIds; their order as integers is their sort order.
NumIds == 3
\* Number of registry operations in one behaviour of Spec.
MaxOps == 4
\* Document names and number of operations in one behaviour of SpecBuild.
NumBuildIds == 2
MaxBuildOps == 5
\* Script threads, document names and number of operations in one behaviour of
\* SpecConc.
NumProcs == 2
NumConcIds == 2
MaxConcOps == 3
\* Document names and number of operations and script runs in one behaviour of
\* SpecChat.
NumChatIds == 2
MaxChatOps == 4
\* Document names and number of operations and script runs in one behaviour of
\* SpecAsk.
NumAskIds == 1
MaxAskOps == 5
\* Document names and number of form submissions in one behaviour of SpecAdmin.
NumAdminIds == 1
MaxAdminOps == 5
\* Number of operations and script runs in one behaviour of SpecChat where the
\* deployment is app.py.
MaxAppOps == 5

\* ------------------------------------------------------------ input domains
Max(a, b) == IF a >= b THEN a ELSE b
PdfNames == 1..Max(Max(NumIds, NumBuildIds), Max(NumConcIds, NumChatIds))
Procs == 1..NumProcs
\* config["active_pdf"] = None
NoPdf == 0
Descriptions == {"d1", "d2"}
\* Uploaded byte streams: not a PDF container, a scanned PDF without a text
\* layer, and two PDFs with different text.
Uploads == {"invalid", "scan", "textA", "textB"}
\* pdf_files value of a path at which no file exists
NoFile == "<no file>"

PDF_DIR == "data/pdfs"
VECTOR_DIR == "data/vectorstores"
\* the directories of app.py
APP_PDF_DIR == "pdf_files"
APP_VECTOR_DIR == "vectorstores"

\* os.path.join(PDF_DIR, f"{pdf_name}.pdf")
PdfPath(n) == [dir |-> PDF_DIR, name |-> n]
\* os.path.join(VECTOR_DIR, f"{pdf_name}.pkl")
VecPath(n) == [dir |-> VECTOR_DIR, name |-> n]
\* app.py: os.path.join("pdf_files", f"{pdf_name}.pdf")
AppPdfPath(n) == [dir |-> APP_PDF_DIR, name |-> n]
\* app.py: os.path.join("vectorstores", f"{name}.pkl")
AppVecPath(n) == [dir |-> APP_VECTOR_DIR, name |-> n]

\* A file of VECTOR_DIR: absent, opened for writing and never completed
\* (complete = FALSE), or a pickled vector store over the chunks.
NoVector == [exists |-> FALSE, complete |-> FALSE, chunks |-> <<>>]
PartialVector == [exists |-> TRUE, complete |-> FALSE, chunks |-> <<>>]
PickledVector(chunks) == [exists |-> TRUE, complete |-> TRUE, chunks |-> chunks]

\* hashlib.sha256(password.encode()).hexdigest(): injective on the passwords used
hash_password(password) == <<"sha256", password>>

VARIABLES
    deployment,    \* the script Streamlit serves: "pages" (pages/admin.py and
                   \* pages/user.py over utils.py) or "app.py"
    config_file,   \* data/config.json: <<>> when the file does not exist, else <<config>>
    pdf_files,     \* the PDF directory of the deployment: name -> bytes, or NoFile
    vector_files,  \* the vector store directory of the deployment: name -> the .pkl file
    env_key,       \* os.environ has OPENAI_API_KEY
    last,          \* the operation that ran last, its result and st.error message
    nops,          \* operations started so far
    procs,         \* SpecConc: per script thread, the utils call it is in
    session_state, \* st.session_state of the user's session
    script,        \* where the session's script run is
    epoch_start,   \* number of entries that were in the session's history when
                   \* the conversation was last bound or the chat last reset
    requests,      \* the session's pending rerun request: <<>>, or <<q>> for a
                   \* question submitted while a script run is under way
    llm_calls,     \* the questions whose conversation.run call has not returned
    admin_authenticated  \* pages/admin.py: st.session_state.admin_authenticated of
                   \* the administrator's session

ui_vars == <<session_state, script, epoch_start, deployment, requests, llm_calls,
             admin_authenticated>>
Pages == deployment = "pages"
App == deployment = "app.py"
vars == <<config_file, pdf_files, vector_files, env_key, last, nops, procs, ui_vars>>

\* ------------------------------------------------- the pdfs dict (ordered)
\* config["pdfs"] is a Python dict: a sequence of entries with distinct names in
\* insertion order, which json.dump / json.load keep.
Keys(pdfs) == [i \in 1..Len(pdfs) |-> pdfs[i].name]
KeySet(pdfs) == {pdfs[i].name : i \in 1..Len(pdfs)}
HasKey(pdfs, n) == n \in KeySet(pdfs)
Lookup(pdfs, n) == pdfs[CHOOSE i \in 1..Len(pdfs) : pdfs[i].name = n]
\* pdfs[n] = e: in place when n is a key, at the end otherwise
DictSet(pdfs, n, e) ==
    IF HasKey(pdfs, n)
    THEN [i \in 1..Len(pdfs) |-> IF pdfs[i].name = n THEN e ELSE pdfs[i]]
    ELSE Append(pdfs, e)
\* del pdfs[n]
DictDel(pdfs, n) == SelectSeq(pdfs, LAMBDA e : e.name # n)

\* --------------------------------------------------------- config.json
DefaultConfig ==
    [admin_password |-> hash_password("admin"), pdfs |-> <<>>, active_pdf |-> NoPdf]

\* load_config(): the stored config, or the default one (which it also saves)
load_config(cf) == IF cf = <<>> THEN DefaultConfig ELSE cf[1]
\* get_all_pdfs()
get_all_pdfs(cf) == load_config(cf).pdfs
\* the file after load_config()
loaded_file(cf) == <<load_config(cf)>>
\* save_config(config)
save_config(config) == <<config>>

\* os.path.exists(path) for a path of a PDF or a vector store directory
path_exists(pf, vf, path) ==
    IF path.dir \in {PDF_DIR, APP_PDF_DIR} THEN pf[path.name] # NoFile ELSE vf[path.name].exists

\* ------------------------------------------------ registry operations
\* save_pdf: the config it saves
save_pdf_config(config, n, d) ==
    [config EXCEPT
        !.pdfs = DictSet(config.pdfs, n,
                    [name |-> n, path |-> PdfPath(n), description |-> d,
                     vectorstore |-> VecPath(n)]),
        !.active_pdf = n]

\* set_active_pdf: the config after it (saved only when n is registered)
set_active_config(config, n) ==
    IF HasKey(config.pdfs, n) THEN [config EXCEPT !.active_pdf = n] ELSE config

delete_keep_active(config, n) == [config EXCEPT !.pdfs = DictDel(config.pdfs, n)]
delete_lowest_sorted(config, n) ==
    LET rest == DictDel(config.pdfs, n) IN
    [config EXCEPT
        !.pdfs = rest,
        !.active_pdf =
            IF config.active_pdf = n
            THEN IF rest # <<>>
                 THEN CHOOSE k \in KeySet(rest) : \A j \in KeySet(rest) : k <= j
                 ELSE NoPdf
            ELSE config.active_pdf]
\* delete_pdf: the config it saves for a registered n
delete_pdf_config(config, n) ==
    LET rest == DictDel(config.pdfs, n) IN
    [config EXCEPT
        !.pdfs = rest,
        !.active_pdf =
            IF config.active_pdf = n
            THEN IF rest # <<>> THEN Keys(rest)[1] ELSE NoPdf
            ELSE config.active_pdf]

delete_pdf_keeping_vectors(vf, config, n) == vf
\* delete_pdf: VECTOR_DIR after os.remove(vectorstore_path) where the file exists
delete_pdf_vectors(vf, config, n) ==
    [vf EXCEPT ![Lookup(config.pdfs, n).vectorstore.name] = NoVector]
\* delete_pdf: PDF_DIR after os.remove(pdf_path) where the file exists
delete_pdf_files(pf, config, n) ==
    [pf EXCEPT ![Lookup(config.pdfs, n).path.name] = NoFile]

\* process_pdf: the config it saves on success
process_pdf_config(config, n, vectorstore_path) ==
    [config EXCEPT
        !.pdfs = DictSet(config.pdfs, n,
                    [Lookup(config.pdfs, n) EXCEPT !.vectorstore = vectorstore_path])]

\* extract_text_from_pdf: PdfReader raises on a missing file or a stream that is
\* no PDF; a page without a text layer contributes "".
extract_raises(bytes) == bytes \in {NoFile, "invalid"}
extract_text_from_pdf(bytes) ==
    CASE bytes = "textA" -> "A"
      [] bytes = "textB" -> "B"
      [] OTHER -> ""
\* RecursiveCharacterTextSplitter.split_text on a text shorter than chunk_size
split_text(text) == IF text = "" THEN <<>> ELSE <<text>>

\* create_vectorstore(text, pdf_name), given VECTOR_DIR, the environment and the
\* outcome of the two external steps (embed_ok: FAISS.from_texts returns;
\* dump_ok: pickle.dump returns): [path_ok, error, vectors].  open(path, "wb")
\* creates or truncates the file before pickle.dump writes it.
create_vectorstore_unchecked(vf, key, text, n, embed_ok, dump_ok) ==
    LET chunks == split_text(text) IN
    IF ~key THEN [path_ok |-> FALSE, error |-> "API key required", vectors |-> vf]
    ELSE IF ~embed_ok
    THEN [path_ok |-> FALSE, error |-> "Error creating vector store", vectors |-> vf]
    ELSE IF ~dump_ok
    THEN [path_ok |-> FALSE, error |-> "Error creating vector store",
          vectors |-> [vf EXCEPT ![VecPath(n).name] = PartialVector]]
    ELSE [path_ok |-> TRUE, error |-> "",
          vectors |-> [vf EXCEPT ![VecPath(n).name] = PickledVector(chunks)]]
create_vectorstore(vf, key, text, n, embed_ok, dump_ok) ==
    LET chunks == split_text(text) IN
    IF chunks = <<>>
    THEN [path_ok |-> FALSE, error |-> "Could not extract text", vectors |-> vf]
    ELSE IF ~key THEN [path_ok |-> FALSE, error |-> "API key required", vectors |-> vf]
    ELSE IF ~embed_ok
    THEN [path_ok |-> FALSE, error |-> "Error creating vector store", vectors |-> vf]
    ELSE IF ~dump_ok
    THEN [path_ok |-> FALSE, error |-> "Error creating vector store",
          vectors |-> [vf EXCEPT ![VecPath(n).name] = PartialVector]]
    ELSE [path_ok |-> TRUE, error |-> "",
          vectors |-> [vf EXCEPT ![VecPath(n).name] = PickledVector(chunks)]]

\* What one call of process_pdf(n) does, given config as loaded, the two
\* directories, the environment and the outcome of the external steps:
\* [ok, error, vectors, config, saves].
process_pdf_result(config, pf, vf, key, n, embed_ok, dump_ok) ==
    LET fail(msg, v) ==
            [ok |-> FALSE, error |-> msg, vectors |-> v, config |-> config, saves |-> FALSE]
    IN
    IF ~HasKey(config.pdfs, n) THEN fail("not found in configuration", vf)
    ELSE IF ~key THEN fail("API key required", vf)
    ELSE LET bytes == pf[Lookup(config.pdfs, n).path.name]
             made == create_vectorstore(vf, key, extract_text_from_pdf(bytes), n,
                                        embed_ok, dump_ok)
         IN
         IF extract_raises(bytes) THEN fail("Error processing PDF", vf)
         ELSE IF ~made.path_ok THEN fail(made.error, made.vectors)
         ELSE [ok |-> TRUE, error |-> "", vectors |-> made.vectors,
               config |-> process_pdf_config(config, n, VecPath(n)),
               saves |-> TRUE]

\* Status shown for a registered document: admin.py tests whether the file its
\* "vectorstore" field names exists.
Status(cf, vf, pf, n) ==
    LET pdfs == load_config(cf).pdfs IN
    IF ~HasKey(pdfs, n) THEN "absent"
    ELSE IF path_exists(pf, vf, Lookup(pdfs, n).vectorstore) THEN "processed"
    ELSE "unprocessed"

Record(op, n, ok, err) ==
    [op |-> op, id |-> n, ok |-> ok, error |-> err,
     pre |-> Status(config_file, vector_files, pdf_files, n),
     was_active |-> (load_config(config_file).active_pdf = n)]

\* A script thread outside any utils call.  Inside one: pc is the statement it
\* is at, id / description the call's arguments, config the dict load_config
\* returned to it, text the text it extracted.
IdleProc == [pc |-> "idle", id |-> NoPdf, description |-> "", config |-> DefaultConfig,
             text |-> ""]

\* st.session_state.conversation = None
NoConversation == [bound |-> FALSE, path |-> VecPath(NoPdf), chunks |-> <<>>, memory |-> <<>>]
\* No script run of the session is under way
IdleScript == [pc |-> "idle", question |-> ""]

InitFiles ==
    /\ config_file = <<>>
    /\ pdf_files = [n \in PdfNames |-> NoFile]
    /\ vector_files = [n \in PdfNames |-> NoVector]
    /\ env_key = FALSE
    /\ last = [op |-> "none", id |-> NoPdf, ok |-> TRUE, error |-> "",
               pre |-> "absent", was_active |-> FALSE]
    /\ nops = 0
    /\ procs = [p \in Procs |-> IdleProc]
    /\ script = IdleScript
    /\ epoch_start = 0
    /\ requests = <<>>
    /\ llm_calls = <<>>
    /\ admin_authenticated = FALSE

\* pages/user.py, lines 15-25
Init ==
    /\ deployment = "pages"
    /\ session_state = [messages |-> <<>>, conversation |-> NoConversation,
                        openai_api_key |-> FALSE, current_pdf |-> NoPdf]
    /\ InitFiles

\* app.py, lines 19-40
InitApp ==
    /\ deployment = "app.py"
    /\ session_state = [chat_history |-> <<>>, conversation |-> NoConversation,
                        openai_api_key |-> FALSE, current_pdf |-> NoPdf]
    /\ InitFiles

\* either deployment
InitAny == Init \/ InitApp

\* The sidebar's key input: os.environ["OPENAI_API_KEY"] = api_key
SetApiKey ==
    /\ Pages
    /\ ~env_key
    /\ env_key' = TRUE
    /\ UNCHANGED <<config_file, pdf_files, vector_files, last, nops, procs, ui_vars>>

\* save_pdf(uploaded_file, pdf_name, description)
SavePdf(n, d, bytes) ==
    /\ Pages
    /\ pdf_files' = [pdf_files EXCEPT ![PdfPath(n).name] = bytes]
    /\ config_file' = save_config(save_pdf_config(load_config(config_file), n, d))
    /\ last' = Record("save_pdf", n, TRUE, "")
    /\ nops' = nops + 1
    /\ UNCHANGED <<vector_files, env_key, procs, ui_vars>>

\* process_pdf(pdf_name)
ProcessPdf(n, embed_ok, dump_ok) ==
    LET r == process_pdf_result(load_config(config_file), pdf_files, vector_files,
                                env_key, n, embed_ok, dump_ok)
    IN
    /\ Pages
    /\ vector_files' = r.vectors
    /\ config_file' = IF r.saves THEN save_config(r.config) ELSE loaded_file(config_file)
    /\ last' = Record("process_pdf", n, r.ok, r.error)
    /\ nops' = nops + 1
    /\ UNCHANGED <<pdf_files, env_key, procs, ui_vars>>

\* set_active_pdf(pdf_name)
SetActivePdf(n) ==
    LET config == load_config(config_file) IN
    /\ Pages
    /\ config_file' = save_config(set_active_config(config, n))
    /\ last' = Record("set_active_pdf", n, HasKey(config.pdfs, n), "")
    /\ nops' = nops + 1
    /\ UNCHANGED <<pdf_files, vector_files, env_key, procs, ui_vars>>

\* delete_pdf(pdf_name)
DeletePdf(n) ==
    LET config == load_config(config_file) IN
    /\ Pages
    /\ IF HasKey(config.pdfs, n)
       THEN /\ pdf_files' = delete_pdf_files(pdf_files, config, n)
            /\ vector_files' = delete_pdf_vectors(vector_files, config, n)
            /\ config_file' = save_config(delete_pdf_config(config, n))
       ELSE /\ config_file' = loaded_file(config_file)
            /\ UNCHANGED <<pdf_files, vector_files>>
    /\ last' = Record("delete_pdf", n, HasKey(config.pdfs, n), "")
    /\ nops' = nops + 1
    /\ UNCHANGED <<env_key, procs, ui_vars>>

\* Spec: the registry over NumIds names, operations running one after another
Next ==
    \/ SetApiKey
    \/ \E n \in 1..NumIds, d \in Descriptions :
          nops < MaxOps /\ SavePdf(n, d, "textA")
    \/ \E n \in 1..NumIds, embed_ok \in BOOLEAN, dump_ok \in BOOLEAN :
          nops < MaxOps /\ ProcessPdf(n, embed_ok, dump_ok)
    \/ \E n \in 1..NumIds : nops < MaxOps /\ SetActivePdf(n)
    \/ \E n \in 1..NumIds : nops < MaxOps /\ DeletePdf(n)

Spec == Init /\ [][Next]_vars

\* ------------------------------------------------------------------ app.py
\* get_pdf_files(): the names of the .pdf files of pdf_files
get_pdf_files(pf) == {n \in PdfNames : path_exists(pf, <<>>, AppPdfPath(n))}
\* user_view, line 330: the names whose "processed" is true
processed_pdfs(pf, vf) == {n \in get_pdf_files(pf) : path_exists(pf, vf, AppVecPath(n))}
\* Status shown by admin_view, lines 270-273
AppStatus(pf, vf, n) ==
    IF n \notin get_pdf_files(pf) THEN "absent"
    ELSE IF n \in processed_pdfs(pf, vf) THEN "processed"
    ELSE "unprocessed"

\* app.py process_pdf(pdf_name, pdf_path): [ok, error, vectors].  PdfReader
\* raises outside the try block, which ends the script run with the exception.
app_process_pdf(pf, vf, n, embed_ok, dump_ok) ==
    LET bytes == pf[AppPdfPath(n).name]
        chunks == split_text(extract_text_from_pdf(bytes))
    IN
    IF extract_raises(bytes)
    THEN [ok |-> FALSE, error |-> "uncaught exception", vectors |-> vf]
    ELSE IF chunks = <<>>
    THEN [ok |-> FALSE, error |-> "Could not extract text", vectors |-> vf]
    ELSE IF ~embed_ok
    THEN [ok |-> FALSE, error |-> "Error processing PDF", vectors |-> vf]
    ELSE IF ~dump_ok
    THEN [ok |-> FALSE, error |-> "Error processing PDF",
          vectors |-> [vf EXCEPT ![AppVecPath(n).name] = PartialVector]]
    ELSE [ok |-> TRUE, error |-> "",
          vectors |-> [vf EXCEPT ![AppVecPath(n).name] = PickledVector(chunks)]]

AppRecord(op, n, ok, err) ==
    [op |-> op, id |-> n, ok |-> ok, error |-> err,
     pre |-> AppStatus(pdf_files, vector_files, n), was_active |-> FALSE]

\* admin_view, lines 194-201: the key is typed into the admin panel's sidebar
AppEnterKey ==
    /\ App
    /\ script.pc = "idle"
    /\ ~session_state.openai_api_key
    /\ session_state' = [session_state EXCEPT !.openai_api_key = TRUE]
    /\ last' = AppRecord("enter_key", NoPdf, TRUE, "")
    /\ UNCHANGED <<config_file, pdf_files, vector_files, env_key, nops, procs, script,
                   epoch_start, deployment, admin_authenticated, requests, llm_calls>>

\* admin_view, lines 226-254: the upload form; process is the checkbox
AppUpload(n, bytes, process, embed_ok, dump_ok) ==
    LET files == [pdf_files EXCEPT ![AppPdfPath(n).name] = bytes]
        r == app_process_pdf(files, vector_files, n, embed_ok, dump_ok)
    IN
    /\ App
    /\ nops' = nops + 1
    /\ pdf_files' = files
    /\ IF process /\ session_state.openai_api_key
       THEN /\ vector_files' = r.vectors
            /\ last' = AppRecord("upload", n, r.ok, r.error)
       ELSE /\ vector_files' = vector_files
            /\ last' = AppRecord("upload", n, ~process,
                                 IF process THEN "API key required" ELSE "")
    /\ UNCHANGED <<config_file, env_key, procs, ui_vars>>

\* admin_view, lines 276-286: "Process now", shown for a file that is not processed
AppProcessNow(n, embed_ok, dump_ok) ==
    LET r == app_process_pdf(pdf_files, vector_files, n, embed_ok, dump_ok) IN
    /\ App
    /\ AppStatus(pdf_files, vector_files, n) = "unprocessed"
    /\ nops' = nops + 1
    /\ IF session_state.openai_api_key
       THEN /\ vector_files' = r.vectors
            /\ last' = AppRecord("process_pdf", n, r.ok, r.error)
       ELSE /\ vector_files' = vector_files
            /\ last' = AppRecord("process_pdf", n, FALSE, "API key required")
    /\ UNCHANGED <<config_file, pdf_files, env_key, procs, ui_vars>>

\* admin_view, lines 290-301: "Delete PDF" of a listed file
AppDelete(n) ==
    /\ App
    /\ n \in get_pdf_files(pdf_files)
    /\ nops' = nops + 1
    /\ pdf_files' = [pdf_files EXCEPT ![AppPdfPath(n).name] = NoFile]
    /\ vector_files' = [vector_files EXCEPT ![AppVecPath(n).name] = NoVector]
    /\ last' = AppRecord("delete_pdf", n, TRUE, "")
    /\ UNCHANGED <<config_file, env_key, procs, ui_vars>>

\* SpecBuild: the operations of either deployment over every kind of upload
BuildNext ==
    \/ SetApiKey
    \/ \E n \in 1..NumBuildIds, bytes \in Uploads :
          nops < MaxBuildOps /\ SavePdf(n, "d1", bytes)
    \/ \E n \in 1..NumBuildIds, embed_ok \in BOOLEAN, dump_ok \in BOOLEAN :
          nops < MaxBuildOps /\ ProcessPdf(n, embed_ok, dump_ok)
    \/ \E n \in 1..NumBuildIds : nops < MaxBuildOps /\ SetActivePdf(n)
    \/ \E n \in 1..NumBuildIds : nops < MaxBuildOps /\ DeletePdf(n)
    \/ AppEnterKey
    \/ \E n \in 1..NumBuildIds, bytes \in Uploads :
          nops < MaxBuildOps /\ AppUpload(n, bytes, FALSE, TRUE, TRUE)
    \/ \E n \in 1..NumBuildIds, embed_ok \in BOOLEAN, dump_ok \in BOOLEAN :
          nops < MaxBuildOps /\ AppProcessNow(n, embed_ok, dump_ok)
    \/ \E n \in 1..NumBuildIds : nops < MaxBuildOps /\ AppDelete(n)

SpecBuild == InitAny /\ [][BuildNext]_vars

\* ------------------------------------------------------------ SpecConc
\* The same utils calls made by NumProcs script threads (Streamlit runs each
\* session's script in a thread of its own), one file access per step.
At(p, pc) == procs[p].pc = pc
Goto(p, pc) == procs' = [procs EXCEPT ![p].pc = pc]
Return(p) == procs' = [procs EXCEPT ![p] = IdleProc]
Begin(p, n, d, config, pc) ==
    /\ At(p, "idle")
    /\ nops < MaxConcOps
    /\ nops' = nops + 1
    /\ procs' = [procs EXCEPT ![p] = [pc |-> pc, id |-> n, description |-> d,
                                      config |-> config, text |-> ""]]

\* save_pdf, lines 57-61: write the uploaded bytes
ConcSaveWrite(p, n, d, bytes) ==
    /\ Begin(p, n, d, DefaultConfig, "save_pdf:load")
    /\ pdf_files' = [pdf_files EXCEPT ![PdfPath(n).name] = bytes]
    /\ UNCHANGED <<config_file, vector_files, env_key, last, ui_vars>>
\* save_pdf, line 64: config = load_config()
ConcSaveLoad(p) ==
    /\ At(p, "save_pdf:load")
    /\ procs' = [procs EXCEPT ![p].config = load_config(config_file),
                              ![p].pc = "save_pdf:save"]
    /\ config_file' = loaded_file(config_file)
    /\ UNCHANGED <<pdf_files, vector_files, env_key, last, nops, ui_vars>>
\* save_pdf, lines 65-71: update the dict and save_config(config)
ConcSaveSave(p) ==
    /\ At(p, "save_pdf:save")
    /\ config_file' = save_config(save_pdf_config(procs[p].config, procs[p].id,
                                                  procs[p].description))
    /\ Return(p)
    /\ UNCHANGED <<pdf_files, vector_files, env_key, last, nops, ui_vars>>

\* process_pdf, lines 160-170: load_config, the lookup and the key check
ConcProcessLoad(p, n) ==
    LET config == load_config(config_file) IN
    /\ Begin(p, n, "", config,
             IF HasKey(config.pdfs, n) /\ env_key THEN "process_pdf:extract" ELSE "idle")
    /\ config_file' = loaded_file(config_file)
    /\ UNCHANGED <<pdf_files, vector_files, env_key, last, ui_vars>>
\* process_pdf, line 174: extract_text_from_pdf(pdf_info["path"])
ConcProcessExtract(p) ==
    LET bytes == pdf_files[Lookup(procs[p].config.pdfs, procs[p].id).path.name] IN
    /\ At(p, "process_pdf:extract")
    /\ IF extract_raises(bytes)
       THEN Return(p)
       ELSE procs' = [procs EXCEPT ![p].text = extract_text_from_pdf(bytes),
                                   ![p].pc = "process_pdf:create"]
    /\ UNCHANGED <<config_file, pdf_files, vector_files, env_key, last, nops, ui_vars>>
\* process_pdf, lines 177-180: create_vectorstore(pdf_text, pdf_name)
ConcProcessCreate(p, embed_ok, dump_ok) ==
    LET made == create_vectorstore(vector_files, env_key, procs[p].text, procs[p].id,
                                   embed_ok, dump_ok)
    IN
    /\ At(p, "process_pdf:create")
    /\ vector_files' = made.vectors
    /\ IF made.path_ok THEN Goto(p, "process_pdf:save") ELSE Return(p)
    /\ UNCHANGED <<config_file, pdf_files, env_key, last, nops, ui_vars>>
\* process_pdf, lines 183-184: set the entry's vectorstore and save_config(config)
ConcProcessSave(p) ==
    /\ At(p, "process_pdf:save")
    /\ config_file' = save_config(process_pdf_config(procs[p].config, procs[p].id,
                                                     VecPath(procs[p].id)))
    /\ Return(p)
    /\ UNCHANGED <<pdf_files, vector_files, env_key, last, nops, ui_vars>>

\* set_active_pdf, lines 206-207: load_config and the membership test
ConcSetActiveLoad(p, n) ==
    LET config == load_config(config_file) IN
    /\ Begin(p, n, "", config,
             IF HasKey(config.pdfs, n) THEN "set_active_pdf:save" ELSE "idle")
    /\ config_file' = loaded_file(config_file)
    /\ UNCHANGED <<pdf_files, vector_files, env_key, last, ui_vars>>
\* set_active_pdf, lines 208-209
ConcSetActiveSave(p) ==
    /\ At(p, "set_active_pdf:save")
    /\ config_file' = save_config(set_active_config(procs[p].config, procs[p].id))
    /\ Return(p)
    /\ UNCHANGED <<pdf_files, vector_files, env_key, last, nops, ui_vars>>

\* delete_pdf, lines 215-217: load_config and the membership test
ConcDeleteLoad(p, n) ==
    LET config == load_config(config_file) IN
    /\ Begin(p, n, "", config,
             IF HasKey(config.pdfs, n) THEN "delete_pdf:remove" ELSE "idle")
    /\ config_file' = loaded_file(config_file)
    /\ UNCHANGED <<pdf_files, vector_files, env_key, last, ui_vars>>
\* delete_pdf, lines 220-227: remove the PDF file and the vector store file
ConcDeleteRemove(p) ==
    /\ At(p, "delete_pdf:remove")
    /\ pdf_files' = delete_pdf_files(pdf_files, procs[p].config, procs[p].id)
    /\ vector_files' = delete_pdf_vectors(vector_files, procs[p].config, procs[p].id)
    /\ Goto(p, "delete_pdf:save")
    /\ UNCHANGED <<config_file, env_key, last, nops, ui_vars>>
\* delete_pdf, lines 230-237: update the dict and save_config(config)
ConcDeleteSave(p) ==
    /\ At(p, "delete_pdf:save")
    /\ config_file' = save_config(delete_pdf_config(procs[p].config, procs[p].id))
    /\ Return(p)
    /\ UNCHANGED <<pdf_files, vector_files, env_key, last, nops, ui_vars>>

ConcNext ==
    \/ SetApiKey
    \/ \E p \in Procs, n \in 1..NumConcIds : ConcSaveWrite(p, n, "d1", "textA")
    \/ \E p \in Procs : ConcSaveLoad(p)
    \/ \E p \in Procs : ConcSaveSave(p)
    \/ \E p \in Procs, n \in 1..NumConcIds : ConcProcessLoad(p, n)
    \/ \E p \in Procs : ConcProcessExtract(p)
    \/ \E p \in Procs, embed_ok \in BOOLEAN, dump_ok \in BOOLEAN :
          ConcProcessCreate(p, embed_ok, dump_ok)
    \/ \E p \in Procs : ConcProcessSave(p)
    \/ \E p \in Procs, n \in 1..NumConcIds : ConcSetActiveLoad(p, n)
    \/ \E p \in Procs : ConcSetActiveSave(p)
    \/ \E p \in Procs, n \in 1..NumConcIds : ConcDeleteLoad(p, n)
    \/ \E p \in Procs : ConcDeleteRemove(p)
    \/ \E p \in Procs : ConcDeleteSave(p)

SpecConc == Init /\ [][ConcNext]_vars

\* ------------------------------------------------------------ SpecChat
\* pages/user.py: one user session.  A script run is one of the actions below;
\* a run that asks a question stops at the language-model call, which is the
\* step UserAnswer.
Questions == {"q1", "q2"}
\* The answer of the chain for a question over the chunks of its vector store
llm_answer(chunks) == IF chunks = <<"A">> THEN "answer from A" ELSE "answer from B"

\* get_active_pdf()[0]
get_active_pdf(cf) ==
    LET config == load_config(cf) IN
    IF config.active_pdf # NoPdf /\ HasKey(config.pdfs, config.active_pdf)
    THEN config.active_pdf ELSE NoPdf

\* setup_sidebar: the selectbox's value when the user did not change it: the
\* active document, or the first option when there is none
selected_by_default(cf) ==
    IF load_config(cf).pdfs = <<>> THEN NoPdf
    ELSE IF get_active_pdf(cf) # NoPdf THEN get_active_pdf(cf)
    ELSE Keys(load_config(cf).pdfs)[1]
\* setup_sidebar returns (selected_pdf, pdf_info) without st.experimental_rerun()
SidebarReturns(cf) == selected_by_default(cf) = get_active_pdf(cf)

\* setup_conversation_chain(vectorstore_path): pickle.load raises on a file
\* that was never completely written; the memory of a new chain is empty.
setup_conversation_chain(path, key, vf) ==
    IF ~key \/ ~vf[path.name].exists \/ ~vf[path.name].complete
    THEN NoConversation
    ELSE [bound |-> TRUE, path |-> path, chunks |-> vf[path.name].chunks, memory |-> <<>>]

\* initialize_chat(pdf_info) and line 156: session_state.conversation after them
initialize_chat(pdf_info, ss, key, pf, vf) ==
    IF ~path_exists(pf, vf, pdf_info.vectorstore) \/ ~ss.openai_api_key
    THEN NoConversation
    ELSE setup_conversation_chain(pdf_info.vectorstore, key, vf)

\* main, lines 151-153: the chat is initialised again
Rebinds(ss, selected) ==
    selected # NoPdf /\ (~ss.conversation.bound \/ ss.current_pdf # selected)
\* main, lines 128-156: session_state after setup_sidebar returned and the chat
\* was initialised where needed
main_bind(ss, cf, key, pf, vf) ==
    LET selected == selected_by_default(cf) IN
    IF Rebinds(ss, selected)
    THEN [ss EXCEPT !.current_pdf = selected,
                    !.conversation = initialize_chat(Lookup(load_config(cf).pdfs, selected),
                                                     ss, key, pf, vf)]
    ELSE ss

append_user_message_late(messages, q) == messages
\* display_chat_interface, line 102
append_user_message(messages, q) == Append(messages, [role |-> "user", content |-> q])
answer_reporting_error(messages, ok, response) ==
    Append(messages, [role |-> "assistant",
                      content |-> IF ok THEN response ELSE "Error generating response"])
\* display_chat_interface, lines 112-121: messages after conversation.run
\* returned response (ok) or raised
append_answer(messages, ok, response) ==
    IF ok THEN Append(messages, [role |-> "assistant", content |-> response]) ELSE messages

\* ConversationBufferMemory(memory_key="chat_history"): the chat history the
\* chain hands to the language model with the next question
chat_history(conversation) == conversation.memory
\* ConversationalRetrievalChain.run(question) returning response: the memory
\* saves the question and the answer
save_context(conversation, q, response) ==
    [conversation EXCEPT !.memory = conversation.memory \o
        << [role |-> "user", content |-> q], [role |-> "assistant", content |-> response] >>]

UserRecord(op, ok, err) ==
    [op |-> op, id |-> selected_by_default(config_file), ok |-> ok, error |-> err,
     pre |-> "absent", was_active |-> FALSE]

\* A script run starts: no run of the session is under way
UserRunStarts ==
    /\ Pages
    /\ script.pc = "idle"
    /\ nops' = nops + 1
\* ghost: the messages present when the conversation is bound anew
EpochAfterBind(ss, before) ==
    IF Rebinds(ss, selected_by_default(config_file)) THEN Len(ss.messages) ELSE before

\* The user enters the API key (setup_sidebar, lines 33-42); the run goes on to
\* line 156 and shows the chat.
UserEnterKey ==
    LET ss == [session_state EXCEPT !.openai_api_key = TRUE] IN
    /\ Pages
    /\ script.pc = "idle"
    /\ ~session_state.openai_api_key
    /\ SidebarReturns(config_file)
    /\ env_key' = TRUE
    /\ session_state' = main_bind(ss, config_file, TRUE, pdf_files, vector_files)
    /\ epoch_start' = EpochAfterBind(ss, epoch_start)
    /\ config_file' = loaded_file(config_file)
    /\ last' = UserRecord("enter_key", TRUE, "")
    /\ UNCHANGED <<pdf_files, vector_files, nops, procs, deployment, admin_authenticated, requests, llm_calls, script>>

\* The user picks x in the selectbox (setup_sidebar, lines 55-65), or the
\* selectbox shows the first document while none is active: set_active_pdf
\* and st.experimental_rerun().
UserSelect(x) ==
    /\ UserRunStarts
    /\ HasKey(get_all_pdfs(config_file), x)
    /\ x # get_active_pdf(config_file)
    /\ get_active_pdf(config_file) = NoPdf => x = selected_by_default(config_file)
    /\ config_file' = save_config(set_active_config(load_config(config_file), x))
    /\ last' = UserRecord("select", TRUE, "")
    /\ UNCHANGED <<pdf_files, vector_files, env_key, procs, ui_vars>>

\* A run without input: the page is loaded, or a rerun (main, lines 123-165)
UserView ==
    /\ UserRunStarts
    /\ SidebarReturns(config_file)
    /\ session_state' = main_bind(session_state, config_file, env_key, pdf_files, vector_files)
    /\ epoch_start' = EpochAfterBind(session_state, epoch_start)
    /\ config_file' = loaded_file(config_file)
    /\ last' = UserRecord("view", TRUE, "")
    /\ UNCHANGED <<pdf_files, vector_files, env_key, procs, deployment, admin_authenticated, requests, llm_calls, script>>

UserAskInBackground(q) ==
    LET ss == main_bind(session_state, config_file, env_key, pdf_files, vector_files) IN
    /\ UserRunStarts
    /\ SidebarReturns(config_file)
    /\ session_state.conversation.bound
    /\ session_state' = [ss EXCEPT !.messages = append_user_message(ss.messages, q)]
    /\ epoch_start' = EpochAfterBind(session_state, epoch_start)
    /\ script' = IdleScript
    /\ llm_calls' = IF ss.conversation.bound THEN Append(llm_calls, q) ELSE llm_calls
    /\ config_file' = loaded_file(config_file)
    /\ last' = UserRecord("ask", TRUE, "")
    /\ UNCHANGED <<pdf_files, vector_files, env_key, procs, deployment, admin_authenticated, requests>>
\* The user submits question q in the chat input, which the page before enabled
\* (display_chat_interface, lines 95-113, up to the call of conversation.run)
UserAsk(q) ==
    LET ss == main_bind(session_state, config_file, env_key, pdf_files, vector_files) IN
    /\ UserRunStarts
    /\ SidebarReturns(config_file)
    /\ session_state.conversation.bound
    /\ session_state' = [ss EXCEPT !.messages = append_user_message(ss.messages, q)]
    /\ epoch_start' = EpochAfterBind(session_state, epoch_start)
    /\ script' = IF ss.conversation.bound THEN [pc |-> "answering", question |-> q]
                 ELSE IdleScript
    /\ llm_calls' = IF ss.conversation.bound THEN Append(llm_calls, q) ELSE llm_calls
    /\ config_file' = loaded_file(config_file)
    /\ last' = UserRecord("ask", TRUE, "")
    /\ UNCHANGED <<pdf_files, vector_files, env_key, procs, deployment, admin_authenticated, requests>>

\* The user submits question q in the chat input while the script run of an
\* earlier question is in conversation.run: Streamlit keeps the latest widget
\* event as the session's rerun request and hands it to the script thread at
\* its next st.* call.
UserSubmit(q) ==
    /\ Pages
    /\ script.pc = "answering"
    /\ requests' = <<q>>
    /\ UNCHANGED <<config_file, pdf_files, vector_files, env_key, last, nops, procs,
                   session_state, script, epoch_start, deployment, admin_authenticated, llm_calls>>

\* The run of a question submitted during the run before (main, lines 123-165,
\* up to the call of conversation.run)
UserRerun ==
    LET ss == main_bind(session_state, config_file, env_key, pdf_files, vector_files)
        q == script.question
    IN
    /\ Pages
    /\ script.pc = "rerun"
    /\ SidebarReturns(config_file)
    /\ nops' = nops + 1
    /\ session_state' = [ss EXCEPT !.messages = append_user_message(ss.messages, q)]
    /\ epoch_start' = EpochAfterBind(session_state, epoch_start)
    /\ script' = IF ss.conversation.bound THEN [pc |-> "answering", question |-> q]
                 ELSE IdleScript
    /\ llm_calls' = IF ss.conversation.bound THEN Append(llm_calls, q) ELSE llm_calls
    /\ config_file' = loaded_file(config_file)
    /\ last' = UserRecord("ask", TRUE, "")
    /\ UNCHANGED <<pdf_files, vector_files, env_key, procs, deployment, admin_authenticated, requests>>

\* conversation.run(user_question) returns or raises (display_chat_interface,
\* lines 113-121); the run then ends, the reset button not being clicked.
\* With a rerun request pending, the next st.* call (st.markdown, line 114, or
\* st.error, line 119) raises the script runner's RerunException, which is no
\* Exception: the run ends there and the thread runs the script again.
UserAnswer(ok) ==
    LET conversation == session_state.conversation
        response == llm_answer(conversation.chunks)
    IN
    /\ Pages
    /\ script.pc = "answering"
    /\ session_state' =
         [session_state EXCEPT
            !.messages = IF requests = <<>>
                         THEN append_answer(session_state.messages, ok, response)
                         ELSE session_state.messages,
            !.conversation = IF ok THEN save_context(conversation, script.question, response)
                             ELSE conversation]
    /\ script' = IF requests = <<>> THEN IdleScript
                 ELSE [pc |-> "rerun", question |-> requests[1]]
    /\ requests' = <<>>
    /\ llm_calls' = Tail(llm_calls)
    /\ last' = UserRecord("answer", ok, IF ok THEN "" ELSE "Error generating response")
    /\ UNCHANGED <<config_file, pdf_files, vector_files, env_key, nops, procs, deployment, admin_authenticated, epoch_start>>

\* The user clicks "Start New Chat" (main, lines 162-165)
UserReset ==
    LET ss == main_bind(session_state, config_file, env_key, pdf_files, vector_files) IN
    /\ UserRunStarts
    /\ SidebarReturns(config_file)
    /\ session_state.messages # <<>>
    /\ session_state' = [ss EXCEPT !.messages = <<>>]
    /\ epoch_start' = 0
    /\ config_file' = loaded_file(config_file)
    /\ last' = UserRecord("reset", TRUE, "")
    /\ UNCHANGED <<pdf_files, vector_files, env_key, procs, deployment, admin_authenticated, requests, llm_calls, script>>

\* admin_panel, lines 82-107: the upload form with "Process after upload"
\* checked: save_pdf, then process_pdf
AdminUpload(n, d, bytes, embed_ok, dump_ok) ==
    LET config == save_pdf_config(load_config(config_file), n, d)
        files == [pdf_files EXCEPT ![PdfPath(n).name] = bytes]
        r == process_pdf_result(config, files, vector_files, env_key, n, embed_ok, dump_ok)
    IN
    /\ Pages
    /\ env_key
    /\ nops' = nops + 1
    /\ pdf_files' = files
    /\ vector_files' = r.vectors
    /\ config_file' = save_config(r.config)
    /\ last' = Record("upload", n, r.ok, r.error)
    /\ UNCHANGED <<env_key, procs, ui_vars>>

\* ------------------------------------------------------- app.py: user_view
\* setup_conversation(vector_path): None where pickle.load raises
setup_conversation(path, vf) ==
    IF ~vf[path.name].exists \/ ~vf[path.name].complete
    THEN NoConversation
    ELSE [bound |-> TRUE, path |-> path, chunks |-> vf[path.name].chunks, memory |-> <<>>]

\* user_view, lines 332-345: x is the selectbox's value (NoPdf: no selectbox).
\* picked: the user chose it in this run; otherwise it is the option at
\* current_index, which is the first name os.listdir yields when current_pdf
\* is no option.
AppSelected(ss, pf, vf, x, picked) ==
    IF processed_pdfs(pf, vf) = {} THEN x = NoPdf
    ELSE /\ x \in processed_pdfs(pf, vf)
         /\ (~picked /\ ss.current_pdf \in processed_pdfs(pf, vf)) => x = ss.current_pdf

\* user_view, lines 347-357: session_state after the sidebar
user_view_bind(ss, x, vf) ==
    IF x # NoPdf /\ x # ss.current_pdf /\ ss.openai_api_key
    THEN [ss EXCEPT !.current_pdf = x,
                    !.conversation = setup_conversation(AppVecPath(x), vf),
                    !.chat_history = <<>>]
    ELSE ss

\* user_view, lines 365-371: the chat area is displayed
ChatShown(ss, pf, vf) ==
    ss.openai_api_key /\ processed_pdfs(pf, vf) # {} /\ ss.conversation.bound

AppUserRecord(op, ss, ok, err) ==
    [op |-> op, id |-> ss.current_pdf, ok |-> ok, error |-> err,
     pre |-> "absent", was_active |-> FALSE]

AppRunStarts ==
    /\ App
    /\ script.pc = "idle"
    /\ nops' = nops + 1

\* A run of user_view in which the user picks x in the selectbox or changes
\* nothing (lines 305-403)
AppView(x) ==
    LET ss == user_view_bind(session_state, x, vector_files) IN
    /\ AppRunStarts
    /\ AppSelected(session_state, pdf_files, vector_files, x, TRUE)
    /\ session_state' = ss
    /\ last' = AppUserRecord("view", ss, TRUE, "")
    /\ UNCHANGED <<config_file, pdf_files, vector_files, env_key, procs, script,
                   epoch_start, deployment, admin_authenticated, requests, llm_calls>>

\* The user submits question q in the chat input, which the page before showed
\* (lines 378-392, up to the call of conversation.run); the run reads the
\* question only where it displays the chat area.
AppAsk(x, q) ==
    LET ss == user_view_bind(session_state, x, vector_files)
        shown == ChatShown(ss, pdf_files, vector_files)
    IN
    /\ AppRunStarts
    /\ ChatShown(session_state, pdf_files, vector_files)
    /\ AppSelected(session_state, pdf_files, vector_files, x, FALSE)
    /\ session_state' =
         IF shown THEN [ss EXCEPT !.chat_history = append_user_message(ss.chat_history, q)]
         ELSE ss
    /\ script' = IF shown THEN [pc |-> "answering", question |-> q] ELSE IdleScript
    /\ llm_calls' = IF shown THEN Append(llm_calls, q) ELSE llm_calls
    /\ last' = AppUserRecord(IF shown THEN "ask" ELSE "view", ss, TRUE, "")
    /\ UNCHANGED <<config_file, pdf_files, vector_files, env_key, procs, epoch_start,
                   deployment, admin_authenticated, requests>>

\* The user submits question q in the chat input while the script run of an
\* earlier question is in conversation.run (line 392)
AppSubmit(q) ==
    /\ App
    /\ script.pc = "answering"
    /\ requests' = <<q>>
    /\ UNCHANGED <<config_file, pdf_files, vector_files, env_key, last, nops, procs,
                   session_state, script, epoch_start, deployment, admin_authenticated, llm_calls>>

\* The run of a question submitted during the run before (lines 305-392)
AppRerun(x) ==
    LET ss == user_view_bind(session_state, x, vector_files)
        shown == ChatShown(ss, pdf_files, vector_files)
        q == script.question
    IN
    /\ App
    /\ script.pc = "rerun"
    /\ nops' = nops + 1
    /\ AppSelected(session_state, pdf_files, vector_files, x, FALSE)
    /\ session_state' =
         IF shown THEN [ss EXCEPT !.chat_history = append_user_message(ss.chat_history, q)]
         ELSE ss
    /\ script' = IF shown THEN [pc |-> "answering", question |-> q] ELSE IdleScript
    /\ llm_calls' = IF shown THEN Append(llm_calls, q) ELSE llm_calls
    /\ last' = AppUserRecord(IF shown THEN "ask" ELSE "view", ss, TRUE, "")
    /\ UNCHANGED <<config_file, pdf_files, vector_files, env_key, procs, epoch_start,
                   deployment, admin_authenticated, requests>>

\* conversation.run(user_question) returns or raises (lines 391-398); the run
\* then ends, "Clear Chat" not being clicked.  With a rerun request pending,
\* st.write (line 393) or st.error (line 398) raises the script runner's
\* RerunException and the thread runs the script again.
AppAnswer(ok) ==
    LET conversation == session_state.conversation
        response == llm_answer(conversation.chunks)
    IN
    /\ App
    /\ script.pc = "answering"
    /\ session_state' =
         [session_state EXCEPT
            !.chat_history = IF requests = <<>>
                             THEN append_answer(session_state.chat_history, ok, response)
                             ELSE session_state.chat_history,
            !.conversation = IF ok THEN save_context(conversation, script.question, response)
                             ELSE conversation]
    /\ script' = IF requests = <<>> THEN IdleScript
                 ELSE [pc |-> "rerun", question |-> requests[1]]
    /\ requests' = <<>>
    /\ llm_calls' = Tail(llm_calls)
    /\ last' = AppUserRecord("answer", session_state, ok,
                             IF ok THEN "" ELSE "Error generating response")
    /\ UNCHANGED <<config_file, pdf_files, vector_files, env_key, nops, procs, epoch_start,
                   deployment, admin_authenticated>>

\* The user clicks "Clear Chat", which the page before showed (lines 400-403)
AppClear(x) ==
    LET ss == user_view_bind(session_state, x, vector_files)
        clicked == ChatShown(ss, pdf_files, vector_files) /\ ss.chat_history # <<>>
    IN
    /\ AppRunStarts
    /\ ChatShown(session_state, pdf_files, vector_files)
    /\ session_state.chat_history # <<>>
    /\ AppSelected(session_state, pdf_files, vector_files, x, FALSE)
    /\ session_state' = IF clicked THEN [ss EXCEPT !.chat_history = <<>>] ELSE ss
    /\ last' = AppUserRecord(IF clicked THEN "reset" ELSE "view", ss, TRUE, "")
    /\ UNCHANGED <<config_file, pdf_files, vector_files, env_key, procs, script,
                   epoch_start, deployment, admin_authenticated, requests, llm_calls>>

\* SpecChat: one user session of either deployment, and the administrator
ChatNext ==
    \/ SetApiKey
    \/ UserEnterKey
    \/ \E n \in 1..NumChatIds, bytes \in {"textA", "textB"}, dump_ok \in BOOLEAN :
          nops < MaxChatOps /\ AdminUpload(n, "d1", bytes, TRUE, dump_ok)
    \/ \E n \in 1..NumChatIds : nops < MaxChatOps /\ DeletePdf(n)
    \/ \E x \in 1..NumChatIds : nops < MaxChatOps /\ UserSelect(x)
    \/ nops < MaxChatOps /\ UserView
    \/ \E q \in Questions : nops < MaxChatOps /\ UserAsk(q)
    \/ \E ok \in BOOLEAN : UserAnswer(ok)
    \/ nops < MaxChatOps /\ UserReset
    \/ AppEnterKey
    \/ \E n \in 1..NumChatIds, bytes \in {"textA", "textB"}, dump_ok \in BOOLEAN :
          nops < MaxAppOps /\ AppUpload(n, bytes, TRUE, TRUE, dump_ok)
    \/ \E n \in 1..NumChatIds : nops < MaxAppOps /\ AppDelete(n)
    \/ \E x \in 0..NumChatIds : nops < MaxAppOps /\ AppView(x)
    \/ \E x \in 0..NumChatIds, q \in Questions : nops < MaxAppOps /\ AppAsk(x, q)
    \/ \E ok \in BOOLEAN : AppAnswer(ok)
    \/ \E x \in 0..NumChatIds : nops < MaxAppOps /\ AppClear(x)

SpecChat == InitAny /\ [][ChatNext]_vars

\* SpecAsk: the session of either deployment where the user may submit a
\* question while the run of an earlier one is in conversation.run
AskNext ==
    \/ SetApiKey
    \/ UserEnterKey
    \/ \E n \in 1..NumAskIds, bytes \in {"textA", "textB"} :
          nops < MaxAskOps /\ AdminUpload(n, "d1", bytes, TRUE, TRUE)
    \/ nops < MaxAskOps /\ UserView
    \/ \E q \in Questions : nops < MaxAskOps /\ UserAsk(q)
    \/ \E ok \in BOOLEAN : UserAnswer(ok)
    \/ \E q \in Questions : nops < MaxAskOps /\ UserSubmit(q)
    \/ UserRerun
    \/ nops < MaxAskOps /\ UserReset
    \/ AppEnterKey
    \/ \E n \in 1..NumAskIds, bytes \in {"textA", "textB"} :
          nops < MaxAskOps /\ AppUpload(n, bytes, TRUE, TRUE, TRUE)
    \/ \E x \in 0..NumAskIds : nops < MaxAskOps /\ AppView(x)
    \/ \E x \in 0..NumAskIds, q \in Questions : nops < MaxAskOps /\ AppAsk(x, q)
    \/ \E ok \in BOOLEAN : AppAnswer(ok)
    \/ \E q \in Questions : nops < MaxAskOps /\ AppSubmit(q)
    \/ \E x \in 0..NumAskIds : AppRerun(x)
    \/ \E x \in 0..NumAskIds : nops < MaxAskOps /\ AppClear(x)

SpecAsk == InitAny /\ [][AskNext]_vars

\* ------------------------------------------------------------ SpecAdmin
\* pages/admin.py: the administrator's session
Passwords == {"admin", "pw1", "pw2"}
\* verify_password(input_password, stored_hash)
verify_password(input_password, stored_hash) == hash_password(input_password) = stored_hash
\* change_admin_password(new_password), and admin_panel lines 166-168: the
\* config it saves
change_admin_password(config, new_password) ==
    [config EXCEPT !.admin_password = hash_password(new_password)]

AdminRecord(op, ok, err, entered) ==
    [op |-> op, id |-> NoPdf, ok |-> ok, error |-> err, pre |-> "absent",
     was_active |-> FALSE, entered |-> entered]

AdminPanelUnchecked == Pages
\* main, lines 173-177: the session is shown admin_panel() and not login_form()
AdminPanel == Pages /\ admin_authenticated

\* login_form, lines 23-38: the password is submitted
AdminLogin(password) ==
    LET ok == verify_password(password, load_config(config_file).admin_password) IN
    /\ Pages /\ ~AdminPanel
    /\ nops' = nops + 1
    /\ config_file' = loaded_file(config_file)
    /\ admin_authenticated' = ok
    /\ last' = AdminRecord("login", ok, IF ok THEN "" ELSE "Incorrect password", password)
    /\ UNCHANGED <<pdf_files, vector_files, env_key, procs, session_state, script,
                   epoch_start, deployment, requests, llm_calls>>

\* admin_panel, lines 60-62: "Logout"
AdminLogout ==
    /\ AdminPanel
    /\ admin_authenticated' = FALSE
    /\ UNCHANGED <<config_file, pdf_files, vector_files, env_key, last, nops, procs,
                   session_state, script, epoch_start, deployment, requests, llm_calls>>

\* admin_panel, lines 47-58: the API key is typed into the sidebar
AdminSetApiKey == AdminPanel /\ SetApiKey

\* admin_panel, lines 82-107: the upload form, "Process after upload" checked
AdminPanelUpload(n, d, bytes, embed_ok, dump_ok) ==
    AdminPanel /\ AdminUpload(n, d, bytes, embed_ok, dump_ok)

\* admin_panel, lines 124-139: "Process now", shown for an unprocessed document
AdminProcessNow(n, embed_ok, dump_ok) ==
    /\ AdminPanel
    /\ Status(config_file, vector_files, pdf_files, n) = "unprocessed"
    /\ ProcessPdf(n, embed_ok, dump_ok)

\* admin_panel, lines 140-147: "Delete PDF" of a listed document
AdminDelete(n) ==
    /\ AdminPanel
    /\ HasKey(get_all_pdfs(config_file), n)
    /\ DeletePdf(n)

\* admin_panel, lines 150-171: the password form ("" is the empty input)
AdminChangePassword(new_password, confirm_password) ==
    LET ok == new_password # "" /\ new_password = confirm_password IN
    /\ AdminPanel
    /\ nops' = nops + 1
    /\ config_file' = IF ok THEN save_config(change_admin_password(load_config(config_file),
                                                                   new_password))
                      ELSE config_file
    /\ last' = AdminRecord("change_password", ok,
                           IF ok THEN ""
                           ELSE IF new_password = "" THEN "Please enter a password"
                           ELSE "Passwords do not match", new_password)
    /\ UNCHANGED <<pdf_files, vector_files, env_key, procs, ui_vars>>

AdminNext ==
    \/ \E password \in Passwords : nops < MaxAdminOps /\ AdminLogin(password)
    \/ AdminLogout
    \/ AdminSetApiKey
    \/ \E n \in 1..NumAdminIds, embed_ok \in BOOLEAN :
          nops < MaxAdminOps /\ AdminPanelUpload(n, "d1", "textA", embed_ok, TRUE)
    \/ \E n \in 1..NumAdminIds : nops < MaxAdminOps /\ AdminProcessNow(n, TRUE, TRUE)
    \/ \E n \in 1..NumAdminIds : nops < MaxAdminOps /\ AdminDelete(n)
    \/ \E new_password \in Passwords \cup {""}, confirm_password \in Passwords \cup {""} :
          nops < MaxAdminOps /\ AdminChangePassword(new_password, confirm_password)

SpecAdmin == Init /\ [][AdminNext]_vars

\* ------------------------------------------------------------------ claims
\* the persisted active_pdf
ActivePdf == load_config(config_file).active_pdf
\* the step is one call of the operation op
Called(op) == nops' = nops + 1 /\ last'.op = op
\* the session's history: st.session_state.messages (pages/user.py) or
\* st.session_state.chat_history (app.py)
History == IF App THEN session_state.chat_history ELSE session_state.messages
\* the status of document n as the deployment's pages show it
DocStatus(n) ==
    IF App THEN AppStatus(pdf_files, vector_files, n)
    ELSE Status(config_file, vector_files, pdf_files, n)
\* the same after the step
DocStatusAfter(n) ==
    IF App THEN AppStatus(pdf_files', vector_files', n)
    ELSE Status(config_file', vector_files', pdf_files', n)
\* least element of a non-empty set of names
Lowest(S) == CHOOSE k \in S : \A j \in S : k <= j

\* C1 (as claimed): in every reachable state every registry entry's
\* "vectorstore" field names a file that holds a completely built index.
C1_RegistryReferencesBuiltIndex ==
    \A i \in 1..Len(get_all_pdfs(config_file)) :
        LET v == vector_files[get_all_pdfs(config_file)[i].vectorstore.name] IN
        v.exists /\ v.complete

\* C3: delete_pdf(n) of a registered n removes n's PDF file and index file and
\* n's registry entry, and leaves every other entry and every other file as it was.
C3_DeleteRemovesOnlyThatDocument ==
    [][(Called("delete_pdf") /\ HasKey(get_all_pdfs(config_file), last'.id)) =>
        LET n == last'.id
            before == get_all_pdfs(config_file)
            after == get_all_pdfs(config_file')
        IN
        /\ last'.ok
        /\ pdf_files'[n] = NoFile
        /\ ~vector_files'[n].exists
        /\ ~HasKey(after, n)
        /\ \A m \in PdfNames \ {n} :
            /\ pdf_files'[m] = pdf_files[m]
            /\ vector_files'[m] = vector_files[m]
            /\ HasKey(after, m) <=> HasKey(before, m)
            /\ HasKey(before, m) => Lookup(after, m) = Lookup(before, m)
      ]_vars

\* C3 witness: a processed document has been deleted while another document
\* stays registered with its PDF file.
C3_Witness ==
    /\ last.op = "delete_pdf" /\ last.ok /\ last.pre = "processed"
    /\ \E m \in PdfNames \ {last.id} :
          /\ HasKey(get_all_pdfs(config_file), m)
          /\ pdf_files[m] # NoFile

\* C4 (as claimed): after delete_pdf removed the active document, the active
\* document is the lowest-sorted remaining name, or None when none remains.
C4_DeleteSelectsLowestSorted ==
    (last.op = "delete_pdf" /\ last.ok /\ last.was_active) =>
        ActivePdf = IF get_all_pdfs(config_file) = <<>> THEN NoPdf
                    ELSE Lowest(KeySet(get_all_pdfs(config_file)))

\* C4 (amended): after delete_pdf removed the active document, the active
\* document is the first remaining key of the registry in insertion order, or
\* None when none remains.
C4_DeleteSelectsFirstInserted ==
    (last.op = "delete_pdf" /\ last.ok /\ last.was_active) =>
        ActivePdf = IF get_all_pdfs(config_file) = <<>> THEN NoPdf
                    ELSE Keys(get_all_pdfs(config_file))[1]

\* C4 witness: the active document was deleted and the first remaining key is
\* not the lowest-sorted one.
C4_Witness ==
    /\ last.op = "delete_pdf" /\ last.ok /\ last.was_active
    /\ Len(get_all_pdfs(config_file)) >= 2
    /\ Keys(get_all_pdfs(config_file))[1] # Lowest(KeySet(get_all_pdfs(config_file)))

\* C6 (as claimed): a process_pdf call on an unprocessed document that reports
\* failure leaves it unprocessed; the document is processed afterwards only
\* when the call reported success.
C6_FailedProcessLeavesUnprocessed ==
    (last.op = "process_pdf" /\ last.pre = "unprocessed" /\ ~last.ok) =>
        DocStatus(last.id) = "unprocessed"

\* C7: process_pdf on a registered document whose extracted text splits into
\* zero chunks reports failure with the "could not extract text" error, changes
\* no file of the vector store directory, and leaves an unprocessed document
\* unprocessed; in utils.py and in app.py alike.
C7_ZeroChunksFail ==
    [][(/\ Called("process_pdf")
        /\ Pages => HasKey(get_all_pdfs(config_file), last'.id) /\ env_key
        /\ App => session_state.openai_api_key
        /\ ~extract_raises(pdf_files[last'.id])
        /\ split_text(extract_text_from_pdf(pdf_files[last'.id])) = <<>>) =>
        /\ ~last'.ok
        /\ last'.error = "Could not extract text"
        /\ vector_files' = vector_files
        /\ DocStatus(last'.id) = "unprocessed" => DocStatusAfter(last'.id) = "unprocessed"
      ]_vars

\* C7 witness: process_pdf has just failed on a scanned PDF, which is unprocessed.
C7_Witness ==
    /\ last.op = "process_pdf" /\ ~last.ok /\ last.error = "Could not extract text"
    /\ pdf_files[last.id] = "scan"
    /\ Pages /\ env_key
    /\ DocStatus(last.id) = "unprocessed"

\* C7 in app.py: "Process now" has just failed on a scanned PDF.
C7_WitnessApp ==
    /\ last.op = "process_pdf" /\ ~last.ok /\ last.error = "Could not extract text"
    /\ pdf_files[last.id] = "scan"
    /\ App /\ session_state.openai_api_key
    /\ DocStatus(last.id) = "unprocessed"

\* C5: in every reachable state, also when the load_config / save_config steps
\* of calls made by different script threads interleave, the persisted
\* active_pdf is None or a key of the persisted registry.
C5_ActiveIsRegistered ==
    ActivePdf = NoPdf \/ HasKey(get_all_pdfs(config_file), ActivePdf)

\* C5 witness: a save_config of a config loaded before another thread's
\* delete_pdf has made a document active whose PDF file that delete removed.
C5_Witness ==
    /\ ActivePdf # NoPdf
    /\ HasKey(get_all_pdfs(config_file), ActivePdf)
    /\ pdf_files[ActivePdf] = NoFile
    /\ \A p \in Procs : At(p, "idle")

\* The turns of the session recorded since the conversation was last bound or
\* the chat last reset, up to and without the question now being asked
EarlierTurns == SubSeq(History, epoch_start + 1, Len(History) - 1)
RECURSIVE IsSubseq(_, _)
\* s can be had from t by leaving entries out
IsSubseq(s, t) ==
    IF s = <<>> THEN TRUE
    ELSE IF t = <<>> THEN FALSE
    ELSE IF Head(s) = Head(t) THEN IsSubseq(Tail(s), Tail(t))
    ELSE IsSubseq(s, Tail(t))
\* the step ends the language-model call of an ask
Answered == script.pc = "answering" /\ script'.pc = "idle"
\* the history an ask's question is appended to: app.py empties it where the
\* same run binds the session to another document
HistoryAtAsk ==
    IF App /\ session_state'.current_pdf # session_state.current_pdf THEN <<>> ELSE History

\* C2: an ask on a bound session appends the (user, question) entry to the
\* history before the answer is generated; when conversation.run raises, the
\* history stays the previous history plus that one user entry, and an
\* assistant entry is appended only when it returns.  (app.py reads the
\* question only in a run that displays the chat area.)
C2_FailedAskKeepsUserTurnOnly ==
    [][/\ (Called("ask") /\ session_state.conversation.bound) =>
            \E q \in Questions :
                /\ History' = Append(HistoryAtAsk, [role |-> "user", content |-> q])
                /\ script'.pc = "answering" => script'.question = q
       /\ (Answered /\ ~last'.ok) => History' = History
       /\ (Answered /\ last'.ok) =>
            /\ Len(History') = Len(History) + 1
            /\ SubSeq(History', 1, Len(History)) = History
            /\ History'[Len(History')].role = "assistant"
       /\ (script.pc = "answering" /\ ~Answered) => History' = History
      ]_vars

\* C2 witness: an ask after an answered one has just failed; the history ends
\* with its user entry.
C2_Witness ==
    /\ Pages
    /\ last.op = "answer" /\ ~last.ok
    /\ Len(History) = 3
    /\ History[2].role = "assistant"
    /\ History[3].role = "user"

\* C2 in app.py: the same.
C2_WitnessApp ==
    /\ App
    /\ last.op = "answer" /\ ~last.ok
    /\ Len(History) = 3
    /\ History[2].role = "assistant"
    /\ History[3].role = "user"

\* C8 (as claimed): when a script run binds the session to another document
\* than the one it was on, no entry of the history from before the switch is
\* left: the history is empty, or holds only the question asked in that run.
C8_SwitchDiscardsHistory ==
    [][(/\ session_state.current_pdf # NoPdf
        /\ session_state'.current_pdf # NoPdf
        /\ session_state'.current_pdf # session_state.current_pdf
        /\ session_state'.conversation.bound) =>
            \/ History' = <<>>
            \/ \E q \in Questions : History' = <<[role |-> "user", content |-> q]>>
      ]_vars

\* C9 (as claimed): after "Start New Chat" / "Clear Chat" the history is empty
\* and the chat history the chain will hand to the language model on the next
\* ask holds no turn from before the reset.
C9_ResetEmptiesHistory ==
    last.op = "reset" =>
        /\ History = <<>>
        /\ chat_history(session_state.conversation) = <<>>

\* C10 (as claimed): at the language-model call of an ask, the chat history
\* handed over holds every entry recorded in the session's history since the
\* last reset or rebind, in order.
C10_PromptHoldsEarlierTurns ==
    script.pc = "answering" =>
        IsSubseq(EarlierTurns, chat_history(session_state.conversation))

ProcessStep(p) ==
    /\ procs[p].pc \in {"process_pdf:extract", "process_pdf:create", "process_pdf:save"}
    /\ procs'[p] # procs[p]
\* delete_pdf(n) has completed and n was not registered again: n has neither a
\* registry entry nor a PDF file, and no thread is inside delete_pdf(n)
DeleteCompleted(n) ==
    /\ ~HasKey(get_all_pdfs(config_file), n)
    /\ pdf_files[n] = NoFile
    /\ \A p \in Procs : procs[p].id = n =>
          procs[p].pc \notin {"delete_pdf:remove", "delete_pdf:save"}

\* C12 (as claimed): a process_pdf(n) call that overlaps a delete_pdf(n) of
\* another session leaves, once the delete has completed, neither a registry
\* entry nor an index file for n.
C12_ProcessDeleteExclusive ==
    [][\A p \in Procs :
         (ProcessStep(p) /\ DeleteCompleted(procs[p].id)) =>
            /\ ~HasKey(get_all_pdfs(config_file'), procs[p].id)
            /\ ~vector_files'[procs[p].id].exists
      ]_vars

\* C13 (as claimed): the save_config that ends process_pdf(n) changes nothing
\* about any other document: every other registry entry stays as the calls of
\* other sessions, completed since this call loaded the config, left it.
C13_ProcessKeepsOtherEntries ==
    [][\A p \in Procs :
         (procs[p].pc = "process_pdf:save" /\ procs'[p] # procs[p]) =>
            \A m \in PdfNames \ {procs[p].id} :
               /\ HasKey(get_all_pdfs(config_file'), m) <=> HasKey(get_all_pdfs(config_file), m)
               /\ HasKey(get_all_pdfs(config_file), m) =>
                     Lookup(get_all_pdfs(config_file'), m) = Lookup(get_all_pdfs(config_file), m)
      ]_vars

\* C14 (as claimed): in every reachable state every index file that exists,
\* and so makes its document read as processed, is a completely written index.
C14_NoPartialIndex ==
    \A n \in PdfNames : vector_files[n].exists => vector_files[n].complete

\* C15 (as claimed): save_pdf under a name that is registered already reports
\* failure and leaves the stored bytes, the registry entry (description and
\* index reference) and the active selection as they were.
C15_DuplicateRegisterRejected ==
    [][(Called("save_pdf") /\ HasKey(get_all_pdfs(config_file), last'.id)) =>
         /\ ~last'.ok
         /\ pdf_files' = pdf_files
         /\ get_all_pdfs(config_file') = get_all_pdfs(config_file)
         /\ load_config(config_file').active_pdf = ActivePdf
      ]_vars

AdminOps == {"upload", "process_pdf", "delete_pdf", "change_password"}
\* the stored admin password hash
StoredHash == load_config(config_file).admin_password

\* C16: register, process, delete and the password change run only in a
\* session that is authenticated; a login authenticates exactly when the hash
\* of the entered password equals the stored hash; after a password change a
\* login succeeds exactly with the new password; config.json holds a hash and
\* never the password.
C16_AdminGatedByPasswordHash ==
    [][/\ (\E op \in AdminOps : Called(op)) => admin_authenticated
       /\ Called("login") =>
             /\ last'.ok <=> (hash_password(last'.entered) = StoredHash)
             /\ admin_authenticated' = last'.ok
       /\ (Called("login") /\ last.op = "change_password" /\ last.ok) =>
             (last'.ok <=> last'.entered = last.entered)
       /\ (Called("change_password") /\ last'.ok) =>
             load_config(config_file').admin_password = hash_password(last'.entered)
       /\ load_config(config_file').admin_password \in
             {hash_password(password) : password \in Passwords}
      ]_vars

\* C16 witness: after a password change and a logout, a login with the
\* password "admin" used before has just failed.
C16_Witness ==
    /\ last.op = "login" /\ ~last.ok /\ last.entered = "admin"
    /\ StoredHash = hash_password("pw1")
    /\ ~admin_authenticated

\* C17 (as claimed): a document that reads as processed with a completely
\* written index has the index of the bytes now stored for it: the index
\* holds the chunks of the stored PDF file.
C17_IndexOfStoredBytes ==
    \A n \in PdfNames :
        (DocStatus(n) = "processed" /\ vector_files[n].complete) =>
            vector_files[n].chunks = split_text(extract_text_from_pdf(pdf_files[n]))

\* document n exists and is the one the session's page selects, after the step
RegisteredAndSelected(n) ==
    IF App
    THEN n \in processed_pdfs(pdf_files', vector_files') /\ session_state'.current_pdf = n
    ELSE HasKey(get_all_pdfs(config_file'), n) /\ selected_by_default(config_file') = n

\* C18 (as claimed): a run that hands a question to conversation.run does so
\* on a conversation bound to the index of a document that is registered and
\* selected at that time; no ask is answered from the index of a deleted
\* document.
C18_AskOnlyRegisteredDocument ==
    [][(Called("ask") /\ script'.pc = "answering") =>
          RegisteredAndSelected(session_state'.conversation.path.name)
      ]_vars

\* every assistant entry of history h comes right after a user entry
TurnsWellFormed(h) ==
    \A i \in 1..Len(h) :
        /\ h[i].role \in {"user", "assistant"}
        /\ h[i].role = "assistant" => (i > 1 /\ h[i - 1].role = "user")

\* C19: in every reachable state the history is a sequence of user and
\* assistant entries in which every assistant entry comes right after a user
\* entry; an assistant entry is appended right after the user entry of the
\* question it answers, and entries are only appended or the history emptied.
C19_HistoryAlternates ==
    [][/\ TurnsWellFormed(History')
       /\ \/ History' = History
          \/ History' = <<>>
          \/ \E q \in Questions :
                History' \in {Append(History, [role |-> "user", content |-> q]),
                              <<[role |-> "user", content |-> q]>>}
          \/ /\ script.pc = "answering"
             /\ History # <<>>
             /\ History[Len(History)] = [role |-> "user", content |-> script.question]
             /\ History' = Append(History, [role |-> "assistant",
                                   content |-> llm_answer(session_state.conversation.chunks)])
      ]_vars

\* C19 witness: the answer to a question submitted while the call before was
\* awaited has been appended: the history is user, user, assistant.
C19_Witness ==
    /\ last.op = "answer" /\ last.ok
    /\ Len(History) = 3
    /\ History[1].role = "user" /\ History[2].role = "user"
    /\ History[3].role = "assistant"
    /\ Len(chat_history(session_state.conversation)) = 4

====
